---- MODULE Spec2Model ----
(***************************************************************************)
(* dump-nimbus-db: one sequential pass over the four tables of an rkv      *)
(* store (meta, enrollments, experiments, updates).  Each table is opened, *)
(* a read view is acquired, the table is decoded and printed, and the view *)
(* is dropped (src/main.rs).                                               *)
(***************************************************************************)
EXTENDS Integers, Sequences, FiniteSets, TLC

VARIABLES
    pc,        \* position of main: "start", "open", "read", "dump", "ret", "exit"
    idx,       \* index in Tables of the table with_single is working on
    opened,    \* tables on which open_single has been called, in order
    views,     \* tables whose Reader (read view) is alive
    content,   \* what the dump function found in the table it was given
    looked,    \* meta keys dump_meta passed to get_as_json, in order
    res,       \* the Result the dump function returned
    out,       \* lines written to standard output so far
    exit,      \* "running", "zero" or "nonzero"
    error      \* the error main returned (a chain of frames), <<>> if none

vars == <<pc, idx, opened, views, content, looked, res, out, exit, error>>

----------------------------------------------------------------------------
(* Bounds of the model *)

MaxEntries == 2

(* Program constants *)

U16Max == 65535

Tables == <<"meta", "enrollments", "experiments", "updates">>

DB_VERSION == "db_version"
LEGACY_PARTICIPATION == "user-opt-in"
EXPERIMENT_PARTICIPATION == "user-opt-in-experiments"
ROLLOUT_PARTICIPATION == "user-opt-in-rollouts"

MetaKeys ==
    {DB_VERSION, LEGACY_PARTICIPATION, EXPERIMENT_PARTICIPATION, ROLLOUT_PARTICIPATION}

----------------------------------------------------------------------------
(* Errors: an anyhow chain, outermost context first.  A frame records its  *)
(* message and which table and which key that message text mentions.       *)

Frame(text, table, key) == [text |-> text, table |-> table, key |-> key]

StoreError == Frame("StoreError", "", "")
UnsupportedType == Frame("Unsupported type", "", "")
SerdeSyntax == Frame("serde_json: syntax", "", "")
SerdeData == Frame("serde_json: data", "", "")
Utf8Error == Frame("Utf8Error", "", "")
Usage == Frame("Usage: dump-nimbus-db FILENAME", "", "")

Ok(v) == [ok |-> TRUE, val |-> v, err |-> <<>>]
Err(chain) == [ok |-> FALSE, val |-> <<>>, err |-> chain]

\* anyhow's Context on a Result: wrap the error, pass the value through
Context(r, frame) == IF r.ok THEN r ELSE Err(<<frame>> \o r.err)

\* Option<T>
None == [some |-> FALSE, v |-> <<>>]
Some(v) == [some |-> TRUE, v |-> v]

\* anyhow's Context on an Option: None becomes an error
ContextOpt(o, frame) == IF o.some THEN Ok(o.v) ELSE Err(<<frame>>)

----------------------------------------------------------------------------
(* Stored values.  An rkv Value is a tagged union; doc is the text carried *)
(* by the Json variant, abstracted to what serde_json makes of it.         *)

Value(tag, doc) == [tag |-> tag, doc |-> doc]

\* JSON texts found under the metadata keys
Num(n) == [kind |-> "num", n |-> n, b |-> FALSE]
Bool(b) == [kind |-> "bool", n |-> 0, b |-> b]
BadText == [kind |-> "bad", n |-> 0, b |-> FALSE]

\* serde_json::from_str::<u16>
ParseU16(doc) ==
    IF doc.kind = "bad" THEN Err(<<SerdeSyntax>>)
    ELSE IF doc.kind = "num" /\ doc.n >= 0 /\ doc.n <= U16Max THEN Ok(doc.n)
    ELSE Err(<<SerdeData>>)

\* serde_json::from_str::<bool>
ParseBool(doc) ==
    IF doc.kind = "bad" THEN Err(<<SerdeSyntax>>)
    ELSE IF doc.kind = "bool" THEN Ok(doc.b)
    ELSE Err(<<SerdeData>>)

\* enum EnrollmentStatus: the variants and the fields of each
StatusVariants == {"Enrolled", "NotEnrolled", "Disqualified", "WasEnrolled", "Error"}

StatusFields(tag) ==
    CASE tag = "Enrolled" -> <<"reason", "branch">>
      [] tag = "NotEnrolled" -> <<"reason">>
      [] tag = "Disqualified" -> <<"reason", "branch">>
      [] tag = "WasEnrolled" -> <<"branch", "experiment_ended_at">>
      [] tag = "Error" -> <<"reason">>

Range(s) == {s[i] : i \in DOMAIN s}

\* JSON text of an enrollment: {"slug": .., "status": {tag: {fields..}}}
EnrollmentDoc(kind, hasSlug, tag, fields) ==
    [kind |-> kind, hasSlug |-> hasSlug, slug |-> "exp-1", tag |-> tag, fields |-> fields]

\* a status the derived Deserialize would make of an unknown tag if the
\* enum had a catch-all variant: it has none
ParseStatusCatchAll(tag, fields) ==
    IF tag \notin StatusVariants
    THEN Ok([tag |-> "Error", fields |-> StatusFields("Error")])
    ELSE IF ~(Range(StatusFields(tag)) \subseteq fields) THEN Err(<<SerdeData>>)
    ELSE Ok([tag |-> tag, fields |-> StatusFields(tag)])

\* the derived Deserialize of EnrollmentStatus (externally tagged); fields
\* the variant does not name are ignored
ParseStatus(tag, fields) ==
    IF tag \notin StatusVariants THEN Err(<<SerdeData>>)
    ELSE IF ~(Range(StatusFields(tag)) \subseteq fields) THEN Err(<<SerdeData>>)
    ELSE Ok([tag |-> tag, fields |-> StatusFields(tag)])

\* serde_json::from_str::<Enrollment>
ParseEnrollment(doc) ==
    IF doc.kind = "bad" THEN Err(<<SerdeSyntax>>)
    ELSE IF ~doc.hasSlug THEN Err(<<SerdeData>>)
    ELSE LET s == ParseStatus(doc.tag, doc.fields) IN
         IF s.ok THEN Ok([slug |-> doc.slug, status |-> s.val]) ELSE s

\* struct Experiment with rename_all = "camelCase"
ExperimentFields == {"slug", "isRollout", "isEnrollmentPaused", "featureIds"}

\* JSON text of an experiment: the field names present, and their values
ExperimentDoc(kind, fields, is_rollout, is_enrollment_paused, feature_ids) ==
    [kind |-> kind, fields |-> fields, slug |-> "exp-1", is_rollout |-> is_rollout,
     is_enrollment_paused |-> is_enrollment_paused, feature_ids |-> feature_ids]

\* serde_json::from_str::<Experiment>
ParseExperiment(doc) ==
    IF doc.kind = "bad" THEN Err(<<SerdeSyntax>>)
    ELSE IF ~(ExperimentFields \subseteq doc.fields) THEN Err(<<SerdeData>>)
    ELSE Ok([slug |-> doc.slug, is_rollout |-> doc.is_rollout,
             is_enrollment_paused |-> doc.is_enrollment_paused,
             feature_ids |-> doc.feature_ids])

\* JSON text of an update: any well-formed document is a serde_json::Value
UpdateDoc(kind) == [kind |-> kind]

\* serde_json::from_str::<serde_json::Value>
ParseJsonValue(doc) ==
    IF doc.kind = "bad" THEN Err(<<SerdeSyntax>>) ELSE Ok(doc.kind)

\* serde_json::from_str::<T>
FromStr(T, doc) ==
    CASE T = "u16" -> ParseU16(doc)
      [] T = "bool" -> ParseBool(doc)
      [] T = "Enrollment" -> ParseEnrollment(doc)
      [] T = "Experiment" -> ParseExperiment(doc)
      [] T = "serde_json::Value" -> ParseJsonValue(doc)

\* as_json reading the payload of every variant as JSON text
as_json_any_tag(v, T) == FromStr(T, v.doc)

\* ValueExt::as_json::<T>
as_json(v, T) ==
    IF v.tag = "Json" THEN FromStr(T, v.doc) ELSE Err(<<UnsupportedType>>)

\* The outcome of SingleStore::get on one key: an error, no value, a value
GetErr == [st |-> "err", v |-> Value("Blob", BadText)]
Absent == [st |-> "none", v |-> Value("Blob", BadText)]
Present(v) == [st |-> "some", v |-> v]

\* SingleStoreExt::get_as_json::<T>: Result<Option<T>>
get_as_json(store, k, T) ==
    LET g == store[k] IN
    IF g.st = "err" THEN Err(<<StoreError>>)
    ELSE IF g.st = "none" THEN Ok(None)
    ELSE LET r == as_json(g.v, T) IN
         IF r.ok THEN Ok(Some(r.val)) ELSE r

----------------------------------------------------------------------------
(* Display formatting and output lines *)

FmtBool(b) == IF b THEN "true" ELSE "false"
FmtU16(n) == ToString(n)

Line(sec, kind, cells) == [sec |-> sec, kind |-> kind, cells |-> cells]
Blank(sec) == Line(sec, "blank", <<>>)

\* what a dump function did: its Result, the lines it printed, and the
\* meta keys it looked up
Dumped(r, lines, keys) == [ok |-> r.ok, err |-> r.err, lines |-> lines, looked |-> keys]

----------------------------------------------------------------------------
(* dump_meta *)

\* the three lines with the rollout flag printed from the experiment flag
MetaLinesOneFlag(v, e, r) ==
    << Line("meta", "field", <<"db_version", FmtU16(v)>>),
       Line("meta", "field", <<"experiment participation", FmtBool(e)>>),
       Line("meta", "field", <<"rollout participation", FmtBool(e)>>),
       Blank("meta") >>

MetaLines(v, e, r) ==
    << Line("meta", "field", <<"db_version", FmtU16(v)>>),
       Line("meta", "field", <<"experiment participation", FmtBool(e)>>),
       Line("meta", "field", <<"rollout participation", FmtBool(r)>>),
       Blank("meta") >>

\* a lookup that takes an absent key as false instead of failing
RequiredOrFalse(store, k, T, frame) ==
    LET r == get_as_json(store, k, T) IN
    IF ~r.ok THEN r ELSE IF r.val.some THEN Ok(r.val.v) ELSE Ok(FALSE)

\* a lookup that falls back to the legacy key when its own key is absent
RequiredOrLegacy(store, k, T, frame) ==
    LET r == get_as_json(store, k, T) IN
    IF ~r.ok THEN r
    ELSE IF r.val.some THEN Ok(r.val.v)
    ELSE LET l == get_as_json(store, LEGACY_PARTICIPATION, T) IN
         IF l.ok THEN ContextOpt(l.val, frame) ELSE l

\* the `?` after get_as_json, then .context(..)? on the Option
Required(store, k, T, frame) ==
    LET r == get_as_json(store, k, T) IN
    IF r.ok THEN ContextOpt(r.val, frame) ELSE r

UnsupportedVersion == Frame("Unsupported database version", "", DB_VERSION)

\* the arms of the match on db_version: 1 | 2, and 3
LegacyVersionsAndZero == {0, 1, 2}
LegacyVersions == {1, 2}
SplitVersions == {3}

dump_meta(store) ==
    LET ver == LET r == Context(get_as_json(store, DB_VERSION, "u16"),
                                Frame("could not read database version", "", DB_VERSION))
               IN IF r.ok
                  THEN ContextOpt(r.val, Frame("database version missing", "", DB_VERSION))
                  ELSE r
    IN
    IF ~ver.ok THEN Dumped(ver, <<>>, <<DB_VERSION>>)
    ELSE IF ver.val \in LegacyVersions THEN
        LET v == Required(store, LEGACY_PARTICIPATION, "bool",
                          Frame("opt-in key missing", "", LEGACY_PARTICIPATION))
        IN IF ~v.ok THEN Dumped(v, <<>>, <<DB_VERSION, LEGACY_PARTICIPATION>>)
           ELSE Dumped(v, MetaLines(ver.val, v.val, v.val),
                       <<DB_VERSION, LEGACY_PARTICIPATION>>)
    ELSE IF ver.val \in SplitVersions THEN
        LET e == Required(store, EXPERIMENT_PARTICIPATION, "bool",
                          Frame("experiment opt-in key missing", "", EXPERIMENT_PARTICIPATION))
            r == Required(store, ROLLOUT_PARTICIPATION, "bool",
                          Frame("rollout opt-in key missing", "", ROLLOUT_PARTICIPATION))
        IN IF ~e.ok THEN Dumped(e, <<>>, <<DB_VERSION, EXPERIMENT_PARTICIPATION>>)
           ELSE IF ~r.ok
           THEN Dumped(r, <<>>, <<DB_VERSION, EXPERIMENT_PARTICIPATION, ROLLOUT_PARTICIPATION>>)
           ELSE Dumped(r, MetaLines(ver.val, e.val, r.val),
                       <<DB_VERSION, EXPERIMENT_PARTICIPATION, ROLLOUT_PARTICIPATION>>)
    ELSE Dumped(Err(<<UnsupportedVersion>>), <<>>, <<DB_VERSION>>)

----------------------------------------------------------------------------
(* Table entries.  iter_start yields the entries in the store's key order; *)
(* an entry is an iteration error or a (key, value) pair.  The i-th entry  *)
(* has key KeyAt(i); keyUtf8 says whether the key bytes are valid UTF-8.   *)

KeyAt(i) == "k" \o ToString(i)

Entry(st, keyUtf8, v) == [st |-> st, keyUtf8 |-> keyUtf8, v |-> v]

\* what iter_start gave: it failed, or it yields these entries
Iter(start, entries) == [start |-> start, entries |-> entries]

\* collect::<anyhow::Result<Vec<_>>>() over the mapped entries rs: the first
\* error ends the iteration and is the result; there is no partial Vec
Collect(rs) ==
    LET failed == {i \in 1..Len(rs) : ~rs[i].ok} IN
    IF failed = {} THEN Ok([i \in 1..Len(rs) |-> rs[i].val])
    ELSE rs[CHOOSE i \in failed : \A j \in failed : i <= j]

----------------------------------------------------------------------------
(* dump_enrollments *)

\* the closure mapped over the enrollments iterator
EnrollmentEntry(entry, i) ==
    IF entry.st = "err"
    THEN Err(<<Frame("failed to iterate enrollments table", "enrollments", ""), StoreError>>)
    ELSE as_json(entry.v, "Enrollment")

\* format!("{:?}", status): the variant name, then its fields in order
DebugStatus(status) == <<status.tag>> \o status.fields

EnrollmentRow(e) == Line("enrollments", "row", <<e.slug>> \o DebugStatus(e.status))

\* the printing with the title and table printed whether or not there are rows
EnrollmentsPrintedAlways(enrollments) ==
    <<Line("enrollments", "title", <<"Enrollments:">>),
      Line("enrollments", "header", <<"Slug", "Enrollment Status">>)>>
    \o [i \in 1..Len(enrollments) |-> EnrollmentRow(enrollments[i])]
    \o <<Blank("enrollments")>>

\* the printing of the collected enrollments
EnrollmentsPrinted(enrollments) ==
    IF enrollments = <<>>
    THEN <<Line("enrollments", "norecords", <<"No enrollments">>), Blank("enrollments")>>
    ELSE <<Line("enrollments", "title", <<"Enrollments:">>),
           Line("enrollments", "header", <<"Slug", "Enrollment Status">>)>>
         \o [i \in 1..Len(enrollments) |-> EnrollmentRow(enrollments[i])]
         \o <<Blank("enrollments")>>

dump_enrollments(it) ==
    LET enrollments ==
            IF it.start = "err" THEN Err(<<StoreError>>)
            ELSE Collect([i \in 1..Len(it.entries) |-> EnrollmentEntry(it.entries[i], i)])
    IN
    IF ~enrollments.ok THEN Dumped(enrollments, <<>>, <<>>)
    ELSE Dumped(enrollments, EnrollmentsPrinted(enrollments.val), <<>>)

----------------------------------------------------------------------------
(* dump_experiments *)

ExperimentEntry(entry, i) ==
    IF entry.st = "err"
    THEN Err(<<Frame("failed to iterate experiments table", "experiments", ""), StoreError>>)
    ELSE as_json(entry.v, "Experiment")

\* [String]::join(",")
RECURSIVE Join(_)
Join(ss) ==
    IF ss = <<>> THEN ""
    ELSE IF Len(ss) = 1 THEN ss[1]
    ELSE ss[1] \o "," \o Join(Tail(ss))

ExperimentRow(e) ==
    Line("experiments", "row",
         <<e.slug,
           IF e.is_rollout THEN "R" ELSE "E",
           IF e.is_enrollment_paused THEN "Y" ELSE " ",
           Join(e.feature_ids)>>)

\* the printing of the collected experiments
ExperimentsPrinted(experiments) ==
    IF experiments = <<>>
    THEN <<Line("experiments", "norecords", <<"No experiments">>), Blank("experiments")>>
    ELSE <<Line("experiments", "title", <<"Experiments:">>),
           Line("experiments", "header", <<"Slug", "R/E", "Paused?", "Feature IDs">>)>>
         \o [i \in 1..Len(experiments) |-> ExperimentRow(experiments[i])]
         \o <<Blank("experiments")>>

dump_experiments(it) ==
    LET experiments ==
            IF it.start = "err" THEN Err(<<StoreError>>)
            ELSE Collect([i \in 1..Len(it.entries) |-> ExperimentEntry(it.entries[i], i)])
    IN
    IF ~experiments.ok THEN Dumped(experiments, <<>>, <<>>)
    ELSE Dumped(experiments, ExperimentsPrinted(experiments.val), <<>>)

----------------------------------------------------------------------------
(* dump_updates *)

\* the closure mapped over the updates iterator: the key first, then the value
UpdateEntry(entry, i) ==
    IF entry.st = "err"
    THEN Err(<<Frame("failed to iterate updates table", "updates", ""), StoreError>>)
    ELSE IF ~entry.keyUtf8 THEN Err(<<Utf8Error>>)
    ELSE LET v == as_json(entry.v, "serde_json::Value") IN
         IF v.ok THEN Ok(<<KeyAt(i), v.val>>) ELSE v

UpdateRow(u) == Line("updates", "row", u)

\* the printing of the collected updates
UpdatesPrinted(experiments) ==
    IF experiments = <<>>
    THEN <<Line("updates", "norecords", <<"No experiments">>), Blank("updates")>>
    ELSE <<Line("updates", "title", <<"Experiments:">>)>>
         \o [i \in 1..Len(experiments) |-> UpdateRow(experiments[i])]
         \o <<Blank("updates")>>

dump_updates(it) ==
    LET experiments ==
            IF it.start = "err" THEN Err(<<StoreError>>)
            ELSE Collect([i \in 1..Len(it.entries) |-> UpdateEntry(it.entries[i], i)])
    IN
    IF ~experiments.ok THEN Dumped(experiments, <<>>, <<>>)
    ELSE Dumped(experiments, UpdatesPrinted(experiments.val), <<>>)

----------------------------------------------------------------------------
(* What a store can hold: the inputs the run draws from *)

VersionNums == {0, 1, 2, 3, 4, U16Max, U16Max + 1}

VersionOutcomes ==
    {GetErr, Absent, Present(Value("Str", BadText))}
    \cup {Present(Value("Json", Num(n))) : n \in VersionNums}
    \cup {Present(Value("Json", Bool(TRUE))), Present(Value("Json", BadText))}

ParticipationOutcomes ==
    {GetErr, Absent, Present(Value("Bool", Bool(TRUE))), Present(Value("Json", Num(1)))}
    \cup {Present(Value("Json", Bool(b))) : b \in BOOLEAN}

MetaStores ==
    {[k \in MetaKeys |-> IF k = DB_VERSION THEN v ELSE p[k]] :
        v \in VersionOutcomes, p \in [MetaKeys \ {DB_VERSION} -> ParticipationOutcomes]}

EnrollmentDocs ==
    {EnrollmentDoc("obj", TRUE, tag, Range(StatusFields(tag))) : tag \in StatusVariants}
    \cup {EnrollmentDoc("obj", TRUE, "Paused", {"reason"}),
          EnrollmentDoc("obj", TRUE, "Enrolled", {"reason"}),
          EnrollmentDoc("obj", FALSE, "Enrolled", {"reason", "branch"}),
          EnrollmentDoc("bad", FALSE, "", {})}

EnrollmentEntries ==
    {Entry("ok", TRUE, Value("Json", d)) : d \in EnrollmentDocs}
    \cup {Entry("ok", TRUE, Value("Str", EnrollmentDoc("bad", FALSE, "", {}))),
          Entry("err", TRUE, Value("Str", EnrollmentDoc("bad", FALSE, "", {})))}

ExperimentDocs ==
    {ExperimentDoc("obj", ExperimentFields, TRUE, FALSE, <<"feature-a", "feature-b">>),
     ExperimentDoc("obj", {"slug", "is_rollout", "is_enrollment_paused", "feature_ids"},
                   TRUE, FALSE, <<>>),
     ExperimentDoc("bad", {}, FALSE, FALSE, <<>>)}

ExperimentEntries ==
    {Entry("ok", TRUE, Value("Json", d)) : d \in ExperimentDocs}
    \cup {Entry("ok", TRUE, Value("Blob", ExperimentDoc("bad", {}, FALSE, FALSE, <<>>))),
          Entry("err", TRUE, Value("Blob", ExperimentDoc("bad", {}, FALSE, FALSE, <<>>)))}

UpdateEntries ==
    {Entry("ok", TRUE, Value("Json", UpdateDoc("obj"))),
     Entry("ok", FALSE, Value("Json", UpdateDoc("obj"))),
     Entry("ok", TRUE, Value("Json", UpdateDoc("bad"))),
     Entry("ok", TRUE, Value("Str", UpdateDoc("bad"))),
     Entry("err", TRUE, Value("Str", UpdateDoc("bad")))}

SeqsUpTo(S, n) == UNION {[1..m -> S] : m \in 0..n}

Iters(S) == {Iter("err", <<>>)} \cup {Iter("ok", es) : es \in SeqsUpTo(S, MaxEntries)}

----------------------------------------------------------------------------
(* The run: main and with_single *)

NoContent == <<>>
NoResult == Dumped(Ok(<<>>), <<>>, <<>>)

Init ==
    /\ pc = "start"
    /\ idx = 1
    /\ opened = <<>>
    /\ views = {}
    /\ content = NoContent
    /\ looked = <<>>
    /\ res = NoResult
    /\ out = <<>>
    /\ exit = "running"
    /\ error = <<>>

\* main returns Err(chain): the process reports it and exits non-zero
Fail(chain) ==
    /\ pc' = "exit"
    /\ exit' = "nonzero"
    /\ error' = chain

\* main up to the first with_single: the argument, then Rkv::with_capacity
Start ==
    /\ pc = "start"
    /\ \E hasArg \in BOOLEAN, envOk \in BOOLEAN :
         IF ~hasArg THEN Fail(<<Usage>>)
         ELSE IF ~envOk THEN Fail(<<StoreError>>)
         ELSE pc' = "open" /\ UNCHANGED <<exit, error>>
    /\ UNCHANGED <<idx, opened, views, content, looked, res, out>>

\* with_single: rkv.open_single(name, ..)?
OpenSingle ==
    /\ pc = "open"
    /\ opened' = Append(opened, Tables[idx])
    /\ \E ok \in BOOLEAN :
         IF ok THEN pc' = "read" /\ UNCHANGED <<exit, error>>
         ELSE Fail(<<StoreError>>)
    /\ UNCHANGED <<idx, views, content, looked, res, out>>

\* with_single: rkv.read()?
Read ==
    /\ pc = "read"
    /\ \E ok \in BOOLEAN :
         IF ok THEN pc' = "dump" /\ views' = views \cup {Tables[idx]}
                    /\ UNCHANGED <<exit, error>>
         ELSE Fail(<<StoreError>>) /\ UNCHANGED views
    /\ UNCHANGED <<idx, opened, content, looked, res, out>>

\* with_single: f(&store, &reader), for each of the four functions
Ran(c, r) ==
    /\ content' = c
    /\ res' = r
    /\ looked' = r.looked
    /\ out' = out \o r.lines
    /\ pc' = "ret"
    /\ UNCHANGED <<idx, opened, views, exit, error>>

DumpMeta ==
    /\ pc = "dump" /\ Tables[idx] = "meta"
    /\ \E store \in MetaStores : Ran(store, dump_meta(store))

DumpEnrollments ==
    /\ pc = "dump" /\ Tables[idx] = "enrollments"
    /\ \E it \in Iters(EnrollmentEntries) : Ran(it, dump_enrollments(it))

DumpExperiments ==
    /\ pc = "dump" /\ Tables[idx] = "experiments"
    /\ \E it \in Iters(ExperimentEntries) : Ran(it, dump_experiments(it))

DumpUpdates ==
    /\ pc = "dump" /\ Tables[idx] = "updates"
    /\ \E it \in Iters(UpdateEntries) : Ran(it, dump_updates(it))

\* the reader kept alive after with_single has returned
Leaked(vs, name) == vs

\* the views alive once with_single has returned: its reader is dropped
Dropped(vs, name) == vs \ {name}

\* a with_single(..) whose Result is discarded
Discarded(r) == FALSE

\* the `?` after with_single(..) in main: an Err returns from main
Propagates(r) == ~r.ok

\* with_single returns (store and reader are dropped), then the `?` in main
Return ==
    /\ pc = "ret"
    /\ views' = Dropped(views, Tables[idx])
    /\ content' = NoContent
    /\ looked' = <<>>
    /\ res' = NoResult
    /\ IF Propagates(res) THEN Fail(res.err) /\ UNCHANGED idx
       ELSE IF idx < Len(Tables)
       THEN pc' = "open" /\ idx' = idx + 1 /\ UNCHANGED <<exit, error>>
       ELSE pc' = "exit" /\ exit' = "zero" /\ UNCHANGED <<idx, error>>
    /\ UNCHANGED <<opened, out>>

Next ==
    \/ Start
    \/ OpenSingle
    \/ Read
    \/ DumpMeta
    \/ DumpEnrollments
    \/ DumpExperiments
    \/ DumpUpdates
    \/ Return

Spec == Init /\ [][Next]_vars

----------------------------------------------------------------------------
(* Properties *)

AtRet(t) == pc = "ret" /\ Tables[idx] = t

DataTables == {"enrollments", "experiments", "updates"}

JsonNum(store, k) ==
    store[k].st = "some" /\ store[k].v.tag = "Json" /\ store[k].v.doc.kind = "num"

JsonBool(store, k) ==
    store[k].st = "some" /\ store[k].v.tag = "Json" /\ store[k].v.doc.kind = "bool"

VersionIs(store, v) == JsonNum(store, "db_version") /\ store["db_version"].v.doc.n = v

FlagOf(store, k) == store[k].v.doc.b

BoolText(b) == IF b THEN "true" ELSE "false"

\* the three metadata lines shown, as (label, value) pairs
ShownTriple(lines) == [i \in 1..3 |-> lines[i].cells]

Triple(v, e, r) ==
    << <<"db_version", ToString(v)>>,
       <<"experiment participation", BoolText(e)>>,
       <<"rollout participation", BoolText(r)>> >>

\* C1: when db_version decodes to 1 or 2 and user-opt-in is a boolean L,
\* dump_meta succeeds and shows (v, L, L); when it decodes to 3 and both
\* split keys are booleans E and R, it succeeds and shows (3, E, R).
C1_ResolvedTriple ==
    AtRet("meta") =>
      /\ \A v \in {1, 2} :
           VersionIs(content, v) /\ JsonBool(content, "user-opt-in") =>
             /\ res.ok
             /\ Len(res.lines) = 4
             /\ ShownTriple(res.lines)
                  = Triple(v, FlagOf(content, "user-opt-in"), FlagOf(content, "user-opt-in"))
      /\ ( /\ VersionIs(content, 3)
           /\ JsonBool(content, "user-opt-in-experiments")
           /\ JsonBool(content, "user-opt-in-rollouts") ) =>
             /\ res.ok
             /\ Len(res.lines) = 4
             /\ ShownTriple(res.lines)
                  = Triple(3, FlagOf(content, "user-opt-in-experiments"),
                              FlagOf(content, "user-opt-in-rollouts"))

C1_Witness ==
    /\ AtRet("meta")
    /\ VersionIs(content, 3)
    /\ JsonBool(content, "user-opt-in-experiments")
    /\ JsonBool(content, "user-opt-in-rollouts")
    /\ FlagOf(content, "user-opt-in-experiments")
    /\ ~FlagOf(content, "user-opt-in-rollouts")
    /\ res.ok
    /\ out = res.lines

IsUnsupportedVersion(r) ==
    ~r.ok /\ Len(r.err) = 1 /\ r.err[1].text = "Unsupported database version"

\* C2 as stated: every persisted version number outside {1,2,3} ends
\* dump_meta with the unsupported-version error and no metadata line.
C2_AnyPersistedVersion ==
    AtRet("meta") /\ JsonNum(content, "db_version")
      /\ content["db_version"].v.doc.n \notin {1, 2, 3} =>
        IsUnsupportedVersion(res) /\ res.lines = <<>> /\ out = <<>>

\* C2: a persisted version that decodes as a u16 and is outside {1,2,3}
\* ends dump_meta with the unsupported-version error; one that does not fit
\* a u16 ends it with the could-not-read-version error; no metadata line is
\* printed in either case, whatever the participation keys hold.
C2_UnsupportedVersion ==
    AtRet("meta") /\ JsonNum(content, "db_version")
      /\ content["db_version"].v.doc.n \notin {1, 2, 3} =>
        /\ res.lines = <<>> /\ out = <<>>
        /\ IF content["db_version"].v.doc.n \in 0..U16Max
           THEN IsUnsupportedVersion(res)
           ELSE ~res.ok /\ res.err[1].text = "could not read database version"

C2_Witness ==
    /\ AtRet("meta")
    /\ VersionIs(content, 4)
    /\ JsonBool(content, "user-opt-in")
    /\ IsUnsupportedVersion(res)

\* the decode of entry i of table t
EntryResult(t, e, i) ==
    CASE t = "enrollments" -> EnrollmentEntry(e, i)
      [] t = "experiments" -> ExperimentEntry(e, i)
      [] t = "updates" -> UpdateEntry(e, i)

Malformed(t, es) == {i \in 1..Len(es) : es[i].st = "ok" /\ ~EntryResult(t, es[i], i).ok}

Failing(t, es) == {i \in 1..Len(es) : ~EntryResult(t, es[i], i).ok}

First(S) == CHOOSE i \in S : \A j \in S : i <= j

NamesKey(chain, k) == \E j \in 1..Len(chain) : chain[j].key = k

NamesTable(chain, t) == \E j \in 1..Len(chain) : chain[j].table = t

\* C3: a malformed record in a data table aborts the read of that table,
\* nothing of the table is printed, and the error names the offending key
\* and the table.
C3_MalformedAborts ==
    \A t \in DataTables :
      AtRet(t) /\ content.start = "ok" /\ Malformed(t, content.entries) # {} =>
        /\ ~res.ok
        /\ res.lines = <<>>
        /\ \A n \in 1..Len(out) : out[n].sec # t
        /\ First(Failing(t, content.entries)) \in Malformed(t, content.entries) =>
             /\ NamesKey(res.err, KeyAt(First(Failing(t, content.entries))))
             /\ NamesTable(res.err, t)

IsMissing(r, text, k) ==
    ~r.ok /\ r.err = <<[text |-> text, table |-> "", key |-> k]>>

NoneAt(store, k) == store[k].st = "none"

\* C4 as stated: an absent required key ends dump_meta with the error naming
\* that key, for db_version, user-opt-in under versions 1 and 2, and each of
\* the two split keys under version 3.
C4_AnyAbsentKeyNamed ==
    AtRet("meta") =>
      /\ NoneAt(content, "db_version") =>
           IsMissing(res, "database version missing", "db_version") /\ res.lines = <<>>
      /\ (VersionIs(content, 1) \/ VersionIs(content, 2)) /\ NoneAt(content, "user-opt-in") =>
           IsMissing(res, "opt-in key missing", "user-opt-in") /\ res.lines = <<>>
      /\ VersionIs(content, 3) /\ NoneAt(content, "user-opt-in-experiments") =>
           /\ IsMissing(res, "experiment opt-in key missing", "user-opt-in-experiments")
           /\ res.lines = <<>>
      /\ VersionIs(content, 3) /\ NoneAt(content, "user-opt-in-rollouts") =>
           /\ IsMissing(res, "rollout opt-in key missing", "user-opt-in-rollouts")
           /\ res.lines = <<>>

\* C4: an absent required key ends dump_meta with no metadata line; the
\* error names the key for db_version, for user-opt-in under versions 1 and
\* 2, for user-opt-in-experiments under version 3, and for
\* user-opt-in-rollouts under version 3 when user-opt-in-experiments is
\* present and decodes as a boolean (it is looked up first).
C4_AbsentKeyNamed ==
    AtRet("meta") =>
      /\ NoneAt(content, "db_version") =>
           IsMissing(res, "database version missing", "db_version") /\ res.lines = <<>>
      /\ (VersionIs(content, 1) \/ VersionIs(content, 2)) /\ NoneAt(content, "user-opt-in") =>
           IsMissing(res, "opt-in key missing", "user-opt-in") /\ res.lines = <<>>
      /\ VersionIs(content, 3) /\ NoneAt(content, "user-opt-in-experiments") =>
           /\ IsMissing(res, "experiment opt-in key missing", "user-opt-in-experiments")
           /\ res.lines = <<>>
      /\ VersionIs(content, 3) /\ NoneAt(content, "user-opt-in-rollouts") =>
           /\ ~res.ok
           /\ res.lines = <<>>
           /\ JsonBool(content, "user-opt-in-experiments") =>
                IsMissing(res, "rollout opt-in key missing", "user-opt-in-rollouts")

C4_Witness ==
    /\ AtRet("meta")
    /\ VersionIs(content, 3)
    /\ JsonBool(content, "user-opt-in-experiments")
    /\ NoneAt(content, "user-opt-in-rollouts")
    /\ IsMissing(res, "rollout opt-in key missing", "user-opt-in-rollouts")
    /\ out = <<>>

\* the tables whose section is complete in the output, in order: a section
\* ends with its blank line
RECURSIVE CompleteSections(_)
CompleteSections(lines) ==
    IF lines = <<>> THEN <<>>
    ELSE IF Head(lines).kind = "blank"
    THEN <<Head(lines).sec>> \o CompleteSections(Tail(lines))
    ELSE CompleteSections(Tail(lines))

\* every line belongs to the section that the next blank line ends
InSections(lines) ==
    /\ lines # <<>> => lines[Len(lines)].kind = "blank"
    /\ \A n \in 1..(Len(lines) - 1) :
         lines[n].kind # "blank" => lines[n + 1].sec = lines[n].sec

\* C5: the tables are taken in the order meta, enrollments, experiments,
\* updates; a failure ends the run non-zero with no later table opened and
\* with exactly the complete sections of the earlier tables printed; the
\* run exits zero exactly when all four sections have been printed.
C5_TerminalErrors ==
    /\ opened = SubSeq(Tables, 1, Len(opened))
    /\ exit # "running" => pc = "exit"
    /\ pc = "exit" =>
         /\ InSections(out)
         /\ exit = "zero" <=> CompleteSections(out) = Tables
         /\ exit = "nonzero" =>
              /\ CompleteSections(out) = SubSeq(Tables, 1, idx - 1)
              /\ Len(opened) <= idx
              /\ error # <<>>

C5_Witness ==
    /\ pc = "exit"
    /\ exit = "nonzero"
    /\ idx = 3
    /\ CompleteSections(out) = <<"meta", "enrollments">>
    /\ \E n \in 1..Len(out) : out[n].kind = "row"
    /\ error = <<SerdeData>>

NoRecordsText(t) == IF t = "enrollments" THEN "No enrollments" ELSE "No experiments"

\* C6: an empty enrollments, experiments or updates table is no error: the
\* dump prints the no-records line of the table and a blank line, no title
\* and no row, and the run goes on to the next table (or exits zero after
\* updates).
C6_EmptyTable ==
    [][ \A t \in DataTables :
          AtRet(t) /\ content.start = "ok" /\ Len(content.entries) = 0 =>
            /\ res.ok
            /\ Len(res.lines) = 2
            /\ res.lines[1].kind = "norecords"
            /\ res.lines[1].cells = <<NoRecordsText(t)>>
            /\ res.lines[2].kind = "blank"
            /\ exit' # "nonzero"
            /\ IF t = "updates" THEN pc' = "exit" /\ exit' = "zero"
               ELSE pc' = "open" /\ idx' = idx + 1 ]_vars

C6_Witness ==
    /\ AtRet("updates")
    /\ content.start = "ok"
    /\ Len(content.entries) = 0
    /\ res.ok
    /\ out[Len(out) - 1].cells = <<"No experiments">>

TypeOf(t) ==
    CASE t = "enrollments" -> "Enrollment"
      [] t = "experiments" -> "Experiment"
      [] t = "updates" -> "serde_json::Value"

\* C7: as_json fails on every value whose tag is not Json, so such a value
\* under a metadata key that dump_meta looked up, or in any entry of a data
\* table, makes the dump of that table fail.
C7_NonJsonFails ==
    /\ AtRet("meta") =>
         \A n \in 1..Len(looked) :
           LET g == content[looked[n]] IN
           g.st = "some" /\ g.v.tag # "Json" =>
             /\ ~as_json(g.v, IF looked[n] = "db_version" THEN "u16" ELSE "bool").ok
             /\ ~res.ok
             /\ res.lines = <<>>
    /\ \A t \in DataTables :
         AtRet(t) /\ content.start = "ok" =>
           \A i \in 1..Len(content.entries) :
             LET e == content.entries[i] IN
             e.st = "ok" /\ e.v.tag # "Json" =>
               /\ ~as_json(e.v, TypeOf(t)).ok
               /\ ~res.ok
               /\ res.lines = <<>>

C7_Witness ==
    /\ AtRet("updates")
    /\ content.start = "ok"
    /\ Len(content.entries) = 2
    /\ content.entries[1].v.tag = "Json"
    /\ EntryResult("updates", content.entries[1], 1).ok
    /\ content.entries[2].st = "ok"
    /\ content.entries[2].v.tag = "Str"
    /\ res.err = <<UnsupportedType>>

\* C8: at most one read view is alive at any time: none before a table is
\* opened or while its view is being acquired, exactly that table's view
\* while it is dumped, and none once the run has ended, with or without an
\* error.
C8_OneReadView ==
    /\ Cardinality(views) <= 1
    /\ pc \in {"start", "open", "read", "exit"} => views = {}
    /\ pc \in {"dump", "ret"} => views = {Tables[idx]}

C8_Witness ==
    /\ pc = "open"
    /\ idx = 3
    /\ views = {}
    /\ opened = <<"meta", "enrollments">>

ShapeFields(tag) ==
    CASE tag \in {"Enrolled", "Disqualified"} -> <<"reason", "branch">>
      [] tag \in {"NotEnrolled", "Error"} -> <<"reason">>
      [] tag = "WasEnrolled" -> <<"branch", "experiment_ended_at">>

FiveShapes == {"Enrolled", "NotEnrolled", "Disqualified", "WasEnrolled", "Error"}

UnknownTag(e) ==
    e.st = "ok" /\ e.v.tag = "Json" /\ e.v.doc.kind = "obj" /\ e.v.doc.hasSlug
      /\ e.v.doc.tag \notin FiveShapes

\* C9: every enrollment that decodes carries one of the five status shapes,
\* the one its payload is tagged with, with that shape's fields; a payload
\* tagged outside the five fails with a serde data (schema-mismatch) error,
\* so the dump fails and nothing is printed.
C9_ClosedStatus ==
    AtRet("enrollments") /\ content.start = "ok" =>
      /\ res.ok =>
           /\ Len(res.lines) = (IF Len(content.entries) = 0 THEN 2 ELSE Len(content.entries) + 3)
           /\ \A i \in 1..Len(content.entries) :
                LET row == res.lines[i + 2].cells
                    tag == content.entries[i].v.doc.tag
                IN /\ tag \in FiveShapes
                   /\ row = <<"exp-1", tag>> \o ShapeFields(tag)
      /\ \A i \in 1..Len(content.entries) :
           UnknownTag(content.entries[i]) =>
             /\ as_json(content.entries[i].v, "Enrollment") = Err(<<SerdeData>>)
             /\ ~res.ok
             /\ res.lines = <<>>
             /\ i = First(Failing("enrollments", content.entries)) => res.err = <<SerdeData>>

C9_Witness ==
    /\ AtRet("enrollments")
    /\ content.start = "ok"
    /\ Len(content.entries) = 2
    /\ content.entries[1].v.doc.tag = "WasEnrolled"
    /\ content.entries[2].v.doc.tag = "Disqualified"
    /\ res.ok
    /\ Len(res.lines) = 5

\* the participation keys the layout of the persisted version requires
LayoutKeys(store) ==
    IF VersionIs(store, 1) \/ VersionIs(store, 2) THEN {"user-opt-in"}
    ELSE IF VersionIs(store, 3) THEN {"user-opt-in-experiments", "user-opt-in-rollouts"}
    ELSE {}

\* the stores that agree with store on db_version and on its layout's keys
Agreeing(store) ==
    LET fixed == {"db_version"} \cup LayoutKeys(store) IN
    {[k \in MetaKeys |-> IF k \in fixed THEN store[k] ELSE p[k]] :
        p \in [MetaKeys \ fixed -> ParticipationOutcomes]}

\* C10: dump_meta looks up only db_version and the keys of the layout that
\* version selects, and gives the same result (success or the same error,
\* the same lines) on any two stores that agree on those keys.
C10_OnlyLayoutKeys ==
    AtRet("meta") =>
      /\ \A n \in 1..Len(looked) : looked[n] \in {"db_version"} \cup LayoutKeys(content)
      /\ \A other \in Agreeing(content) :
           LET r == dump_meta(other) IN
           r.ok = res.ok /\ r.err = res.err /\ r.lines = res.lines

C10_Witness ==
    /\ AtRet("meta")
    /\ VersionIs(content, 3)
    /\ JsonBool(content, "user-opt-in-experiments")
    /\ JsonBool(content, "user-opt-in-rollouts")
    /\ content["user-opt-in"].st = "err"
    /\ res.ok

====
